---- MODULE Spec2Model ----
(***************************************************************************)
(* autoclear-backup: one run of clear_old_files (src/main.rs).             *)
(*                                                                         *)
(* Time is counted in days.  A directory is a sequence of entries in the   *)
(* order read_dir yields them; every entry carries its file name, its      *)
(* modification time and whether fs::metadata / modified() succeed on it.  *)
(* The outcome of fs::remove_file is chosen when the call is made.         *)
(* Entries that read_dir yields as errors, or whose names are not UTF-8,   *)
(* never reach fadd and are left out of the listing.                       *)
(***************************************************************************)
EXTENDS Integers, Sequences, FiniteSets

(* ------------------------------ bounds --------------------------------- *)

\* Longest directory listing with arbitrary entries (names, times, errors).
MaxFiles == 2

\* Wall-clock time of the run (Local::now()), in days.
Epoch == 1000

\* Ages (now - modified_time, in days) of the entries of an arbitrary listing:
\* in the future, exactly now, exactly one day old, older than one day, older
\* than one week.
SmallAges == {-1, 0, 1, 2, 8}

\* Ages of the entries of a long listing of readable, matching backups.
DeepAges == {1, 2, 3, 8, 29, 365, 729, 730}

(* --------------------------- plain helpers ----------------------------- *)

None == <<>>
Some(x) == <<x>>
IsSome(o) == Len(o) = 1
Unwrap(o) == o[1]

Digits == <<"1", "2", "3", "4", "5", "6", "7", "8", "9">>

\* str::starts_with
StartsWith(s, p) == Len(p) <= Len(s) /\ SubSeq(s, 1, Len(p)) = p

\* The directory argument as main hands it over (it ends with a slash).
Directory == <<".", "/">>

\* format!("{}{}", directory, filename)
Path(filename) == Directory \o filename

\* chrono::Duration::days, chrono::Duration::weeks
Days(n) == n
Weeks(n) == 7 * n

\* The keep_dates array.
KeepDates_FutureFirst(t) ==
    << t + Days(1), t - Days(1), t - Weeks(1), t - Weeks(4), t - Weeks(52), t - Weeks(104) >>

KeepDates(t) ==
    << t - Days(0), t - Days(1), t - Weeks(1), t - Weeks(4), t - Weeks(52), t - Weeks(104) >>

(* ------------------------------ scanner -------------------------------- *)

\* The closure fadd: push (modified_time, path, true) when the metadata and
\* the modification time can be read, nothing otherwise.
Fadd_IgnoreError(files, e) ==
    Append(files, << e.mtime, Path(e.name), TRUE >>)

Fadd(files, e) ==
    IF e.readable
    THEN Append(files, << e.mtime, Path(e.name), TRUE >>)
    ELSE files

\* The prefix filter of the read_dir loop.
Selected(file_name, pfx) ==
    IF IsSome(pfx) THEN StartsWith(file_name, Unwrap(pfx)) ELSE TRUE

(* ------------------------------- sort ---------------------------------- *)

\* keep_files.sort_by(|a, b| b.0.cmp(&a.0)): stable, newest first.
RECURSIVE InsertDesc(_, _)
InsertDesc(x, s) ==
    IF s = <<>> THEN << x >>
    ELSE IF Head(s)[1] >= x[1] THEN << Head(s) >> \o InsertDesc(x, Tail(s))
    ELSE << x >> \o s

RECURSIVE SortDesc_OldestFirst(_)
SortDesc_OldestFirst(s) ==
    IF s = <<>> THEN <<>>
    ELSE LET r == SortDesc_OldestFirst(SubSeq(s, 1, Len(s) - 1))
             x == s[Len(s)]
             older == { j \in 1..Len(r) : r[j][1] <= x[1] }
         IN SubSeq(r, 1, Cardinality(older)) \o << x >>
              \o SubSeq(r, Cardinality(older) + 1, Len(r))

RECURSIVE SortDesc(_)
SortDesc(s) ==
    IF s = <<>> THEN <<>>
    ELSE InsertDesc(s[Len(s)], SortDesc(SubSeq(s, 1, Len(s) - 1)))

(* ------------------------------- sweep --------------------------------- *)

\* Index of the first item with modified_time < keep_date, 0 if there is none.
FirstOlder_OrEqual(files, keep_date) ==
    LET hits == { j \in 1..Len(files) : files[j][1] <= keep_date }
    IN IF hits = {} THEN 0 ELSE CHOOSE j \in hits : \A h \in hits : j <= h

FirstOlder(files, keep_date) ==
    LET hits == { j \in 1..Len(files) : files[j][1] < keep_date }
    IN IF hits = {} THEN 0 ELSE CHOOSE j \in hits : \A h \in hits : j <= h

\* The inner loop for one keep_date: the first older item gets clean = false
\* and, outside test mode, a "keeping file" line; then break.
MarkFirst_NoBreak(files, keep_date, tst) ==
    LET hits == { j \in 1..Len(files) : files[j][1] < keep_date }
    IN [ files |-> [ j \in 1..Len(files) |->
                       IF j \in hits THEN << files[j][1], files[j][2], FALSE >>
                       ELSE files[j] ],
         out   |-> <<>> ]

MarkFirst_OnlyOutsideTest(files, keep_date, tst) ==
    LET j == FirstOlder(files, keep_date)
    IN IF j = 0 \/ tst THEN [ files |-> files, out |-> <<>> ]
       ELSE [ files |-> [ files EXCEPT ![j] = << files[j][1], files[j][2], FALSE >> ],
              out   |-> << << "keeping file", files[j][2] >> >> ]

MarkFirst(files, keep_date, tst) ==
    LET j == FirstOlder(files, keep_date)
    IN IF j = 0 THEN [ files |-> files, out |-> <<>> ]
       ELSE [ files |-> [ files EXCEPT ![j] = << files[j][1], files[j][2], FALSE >> ],
              out   |-> IF ~tst THEN << << "keeping file", files[j][2] >> >> ELSE <<>> ]

\* `if let Some(prefix) = prefix` of the marking phase: sweep or skip.
AfterSort_AlwaysSweep(pfx) == "sweep"

AfterSort(pfx) == IF IsSome(pfx) THEN "sweep" ELSE "remove"

(* ------------------------------- state --------------------------------- *)

VARIABLES
    pc,          \* position in clear_old_files
    directory,   \* the listing read_dir yields
    prefix,      \* Option<String>
    test,        \* bool
    now,         \* Local::now()
    disk,        \* paths that exist on disk
    keep_dates,  \* the boundary array
    keep_files,  \* Vec<(modified_time, path, clean)>
    idx,         \* loop index of the current loop
    stdout,      \* println! lines
    stderr,      \* eprintln! lines
    remove_calls \* paths handed to fs::remove_file, in call order

vars == << pc, directory, prefix, test, now, disk, keep_dates, keep_files,
           idx, stdout, stderr, remove_calls >>

Range(s) == { s[k] : k \in 1..Len(s) }

\* The shape of the state: keep_files holds (modified_time, path, clean)
\* tuples, keep_dates is empty before it is computed and has six entries after.
TypeOK ==
    /\ pc \in {"start", "scan", "sort", "sweep", "remove", "done"}
    /\ test \in BOOLEAN
    /\ Len(prefix) \in {0, 1}
    /\ Len(keep_dates) \in {0, 6}
    /\ \A j \in 1..Len(keep_files) :
         /\ Len(keep_files[j]) = 3
         /\ keep_files[j][1] \in Int
         /\ keep_files[j][2] \in disk \cup Range(remove_calls)
         /\ keep_files[j][3] \in BOOLEAN
    /\ idx \in 0..(Len(directory) + Len(keep_dates) + 1)

(* ------------------------------ inputs --------------------------------- *)

Entry(first, i, age, readable) ==
    [ name |-> << first, Digits[i] >>, mtime |-> Epoch - age, readable |-> readable ]

\* Arbitrary listings of at most MaxFiles entries.
SmallDirs ==
    UNION { { [ i \in 1..n |-> Entry(f[i], i, a[i], r[i]) ] :
                f \in [1..n -> {"b", "x"}], a \in [1..n -> SmallAges],
                r \in [1..n -> BOOLEAN] } : n \in 0..MaxFiles }

\* The members of a set of ages, smallest first.
RECURSIVE Ascending(_)
Ascending(S) ==
    IF S = {} THEN <<>>
    ELSE LET m == CHOOSE x \in S : \A y \in S : x <= y
         IN << m >> \o Ascending(S \ {m})

\* Listings of readable backups named b1, b2, ... with distinct ages, which
\* read_dir yields oldest first.
DeepDirs ==
    { [ i \in 1..Cardinality(S) |->
          Entry("b", i, Ascending(S)[Cardinality(S) + 1 - i], TRUE) ] :
        S \in SUBSET DeepAges }

Prefixes == { None, Some(<<>>), Some(<< "b" >>) }

Init ==
    /\ pc = "start"
    /\ directory \in SmallDirs \cup DeepDirs
    /\ prefix \in Prefixes
    /\ test \in BOOLEAN
    /\ now = Epoch
    /\ disk = { Path(directory[i].name) : i \in 1..Len(directory) }
    /\ keep_dates = <<>>
    /\ keep_files = <<>>
    /\ idx = 0
    /\ stdout = <<>>
    /\ stderr = <<>>
    /\ remove_calls = <<>>

(* ------------------------------ actions -------------------------------- *)

\* fs::read_dir, Local::now() and keep_dates.
ReadDir ==
    /\ pc = "start"
    /\ \E ok \in BOOLEAN :
         IF ok
         THEN /\ keep_dates' = KeepDates(now)
              /\ idx' = 1
              /\ pc' = IF Len(directory) = 0 THEN "sort" ELSE "scan"
              /\ stderr' = stderr
         ELSE /\ stderr' = Append(stderr, << "cannot read directory", Directory >>)
              /\ pc' = "done"
              /\ UNCHANGED << keep_dates, idx >>
    /\ UNCHANGED << directory, prefix, test, now, disk, keep_files, stdout, remove_calls >>

\* One iteration of `for entry in entries`.
ScanEntry ==
    /\ pc = "scan"
    /\ idx <= Len(directory)
    /\ keep_files' = IF Selected(directory[idx].name, prefix)
                     THEN Fadd(keep_files, directory[idx])
                     ELSE keep_files
    /\ idx' = idx + 1
    /\ pc' = IF idx = Len(directory) THEN "sort" ELSE "scan"
    /\ UNCHANGED << directory, prefix, test, now, disk, keep_dates, stdout, stderr,
                    remove_calls >>

\* The sort and the first line of the marking phase.
Sort ==
    /\ pc = "sort"
    /\ keep_files' = SortDesc(keep_files)
    /\ stdout' = Append(stdout,
                   IF IsSome(prefix)
                   THEN << "clearing files with prefix", Unwrap(prefix) >>
                   ELSE << "clearing all files in directory", <<>> >>)
    /\ pc' = AfterSort(prefix)
    /\ idx' = 1
    /\ UNCHANGED << directory, prefix, test, now, disk, keep_dates, stderr, remove_calls >>

\* One iteration of `for keep_date in &keep_dates`.
SweepBoundary ==
    /\ pc = "sweep"
    /\ idx <= Len(keep_dates)
    /\ LET r == MarkFirst(keep_files, keep_dates[idx], test)
       IN /\ keep_files' = r.files
          /\ stdout' = stdout \o r.out
    /\ pc' = IF idx = Len(keep_dates) THEN "remove" ELSE "sweep"
    /\ idx' = IF idx = Len(keep_dates) THEN 1 ELSE idx + 1
    /\ UNCHANGED << directory, prefix, test, now, disk, keep_dates, stderr, remove_calls >>

\* One iteration of the removal loop.
RemoveItem_AbortOnError ==
    /\ pc = "remove"
    /\ idx <= Len(keep_files)
    /\ LET path == keep_files[idx][2]
           clean == keep_files[idx][3]
       IN IF ~clean
          THEN idx' = idx + 1 /\ UNCHANGED << disk, stdout, stderr, remove_calls >>
          ELSE IF test
          THEN /\ stdout' = Append(stdout, << "remove file", path >>)
               /\ idx' = idx + 1
               /\ UNCHANGED << disk, stderr, remove_calls >>
          ELSE /\ remove_calls' = Append(remove_calls, path)
               /\ \E ok \in BOOLEAN :
                    IF ok
                    THEN disk' = disk \ {path} /\ stderr' = stderr /\ idx' = idx + 1
                    ELSE /\ disk' = disk
                         /\ stderr' = Append(stderr, << "cannot remove file", path >>)
                         /\ idx' = Len(keep_files) + 1
               /\ stdout' = stdout
    /\ UNCHANGED << pc, directory, prefix, test, now, keep_dates, keep_files >>

RemoveItem ==
    /\ pc = "remove"
    /\ idx <= Len(keep_files)
    /\ LET path == keep_files[idx][2]
           clean == keep_files[idx][3]
       IN IF ~clean
          THEN UNCHANGED << disk, stdout, stderr, remove_calls >>
          ELSE IF test
          THEN /\ stdout' = Append(stdout, << "remove file", path >>)
               /\ UNCHANGED << disk, stderr, remove_calls >>
          ELSE /\ remove_calls' = Append(remove_calls, path)
               /\ \E ok \in BOOLEAN :
                    IF ok
                    THEN disk' = disk \ {path} /\ stderr' = stderr
                    ELSE /\ disk' = disk
                         /\ stderr' = Append(stderr, << "cannot remove file", path >>)
               /\ stdout' = stdout
    /\ idx' = idx + 1
    /\ UNCHANGED << pc, directory, prefix, test, now, keep_dates, keep_files >>

\* The removal loop is exhausted: clear_old_files returns.
Return ==
    /\ pc = "remove"
    /\ idx > Len(keep_files)
    /\ pc' = "done"
    /\ UNCHANGED << directory, prefix, test, now, disk, keep_dates, keep_files, idx,
                    stdout, stderr, remove_calls >>

Next == ReadDir \/ ScanEntry \/ Sort \/ SweepBoundary \/ RemoveItem \/ Return

Spec == Init /\ [][Next]_vars

(* --------------------------- observations ------------------------------ *)

\* The run got past read_dir and has returned.
Finished == pc = "done" /\ keep_dates # <<>>

\* Paths of the candidate set, and the two sides of the partition.
CandidatePaths == { keep_files[j][2] : j \in 1..Len(keep_files) }
RemoveSet == { keep_files[j][2] : j \in { h \in 1..Len(keep_files) : keep_files[h][3] } }
KeepSet == { keep_files[j][2] : j \in { h \in 1..Len(keep_files) : ~keep_files[h][3] } }

\* What the executor did: "remove file" lines, remove_file calls, failures.
Reported == { stdout[k][2] : k \in { h \in 1..Len(stdout) : stdout[h][1] = "remove file" } }
Called == Range(remove_calls)
Acted == Reported \cup Called
Failed == { stderr[k][2] : k \in { h \in 1..Len(stderr) : stderr[h][1] = "cannot remove file" } }

\* Entries of the listing that the scanner must turn into candidates.
Eligible == { i \in 1..Len(directory) :
                /\ directory[i].readable
                /\ (IsSome(prefix) => StartsWith(directory[i].name, Unwrap(prefix))) }

\* The boundaries, written out: now, and the five historical ones.
HistoricalDates == << now - 1, now - 7, now - 28, now - 364, now - 728 >>
AllDates == << now >> \o HistoricalDates

\* Position of the first item of a list that is strictly older than b, 0 if none.
FirstBelow(files, b) ==
    IF \A j \in 1..Len(files) : files[j][1] >= b THEN 0
    ELSE CHOOSE j \in 1..Len(files) :
           files[j][1] < b /\ \A h \in 1..(j - 1) : files[h][1] >= b

\* The candidate list with every flag back at its initial value.
Unmarked(files) == [ j \in 1..Len(files) |-> << files[j][1], files[j][2], TRUE >> ]

\* The boundary sweep over a list of dates, as SweepBoundary runs it.
RECURSIVE SweepOver(_, _, _)
SweepOver(files, dates, tst) ==
    IF dates = <<>> THEN files
    ELSE SweepOver(MarkFirst(files, Head(dates), tst).files, Tail(dates), tst)

CleanPaths(files) == { files[j][2] : j \in { h \in 1..Len(files) : files[h][3] } }

(* ------------------------------- claims -------------------------------- *)

\* C1 as written: without a prefix REMOVE is empty, no file is deleted or
\* reported for removal.
C1_NoPrefixRemovesNothing ==
    (pc = "done" /\ prefix = None) => Acted = {}

\* C1 amended: without a prefix no flag is ever cleared, so REMOVE is the whole
\* candidate set (every entry whose modification time can be read): a real run
\* calls remove_file on each candidate, a test run reports each candidate.
C1_NoPrefixRemovesAll ==
    prefix = None =>
        /\ \A j \in 1..Len(keep_files) : keep_files[j][3]
        /\ Finished =>
             LET all == { Path(directory[i].name) :
                            i \in { h \in 1..Len(directory) : directory[h].readable } }
             IN /\ CandidatePaths = all
                /\ IF test THEN Reported = all /\ Called = {}
                           ELSE Called = all /\ Reported = {}

C1_Witness ==
    /\ Finished /\ prefix = None /\ ~test
    /\ Len(keep_files) >= 2
    /\ Called = CandidatePaths
    /\ \E j \in 1..Len(keep_files) : keep_files[j][1] < now - 1

\* A listed entry i is the newest candidate strictly older than b.
NewestOlder(i, b) ==
    /\ directory[i].mtime < b
    /\ \A h \in Eligible : directory[h].mtime < b => directory[h].mtime <= directory[i].mtime

\* A listed entry i is the candidate strictly older than b that comes first in
\* the sorted order: the newest one, and among equally new ones the one read_dir
\* yielded first.
FirstOlderEntry(i, b) ==
    /\ directory[i].mtime < b
    /\ \A h \in Eligible \ {i} :
         directory[h].mtime < b =>
            \/ directory[h].mtime < directory[i].mtime
            \/ (directory[h].mtime = directory[i].mtime /\ h > i)

Survivors == { i \in Eligible : Path(directory[i].name) \notin Acted }

SortedDesc(files) ==
    \A j \in 1..(Len(files) - 1) : files[j][1] >= files[j + 1][1]

\* Paths of the candidates that are, for some boundary, the first one older
\* than it.
FirstPerBoundary ==
    { keep_files[FirstBelow(keep_files, AllDates[k])][2] :
        k \in { h \in 1..Len(AllDates) : FirstBelow(keep_files, AllDates[h]) # 0 } }

\* C3 as written: with a prefix, REMOVE is exactly the set of first candidates
\* older than a boundary, and every other candidate is kept and not deleted.
C3_RemoveIsFirstPerBoundary ==
    (Finished /\ IsSome(prefix)) =>
        /\ RemoveSet = FirstPerBoundary
        /\ Acted = FirstPerBoundary

\* C3 amended: with a prefix, the candidate list is sorted by modified_time
\* descending and KEEP is exactly the set of candidates that are, for some
\* boundary b, the first candidate in that order with modified_time < b;
\* every other candidate is in REMOVE and is deleted (reported in test mode).
C3_KeepIsFirstPerBoundary ==
    (Finished /\ IsSome(prefix)) =>
        /\ SortedDesc(keep_files)
        /\ KeepSet = FirstPerBoundary
        /\ RemoveSet = CandidatePaths \ FirstPerBoundary
        /\ Acted = RemoveSet

C3_Witness ==
    /\ Finished /\ IsSome(prefix)
    /\ Cardinality(KeepSet) >= 3
    /\ Cardinality(RemoveSet) >= 2
    /\ directory[1].mtime < directory[Len(directory)].mtime

\* C4 as written: in every run at most 6 files are placed in REMOVE.
C4_AtMostSixRemoved ==
    pc = "done" => Cardinality(Acted) <= 6

\* C4 amended: in every run with a prefix at most 6 candidates are taken out
\* of REMOVE (kept), one per boundary swept so far, fewer when a boundary
\* matches no candidate or the candidate an earlier boundary matched; REMOVE
\* is every other candidate and has no bound.
C4_AtMostSixKept ==
    IsSome(prefix) =>
        /\ Cardinality(KeepSet) <= 6
        /\ pc = "sweep" => Cardinality(KeepSet) <= idx - 1
        /\ Finished => Cardinality(CandidatePaths \ Acted) <= 6

C4_Witness ==
    /\ Finished /\ IsSome(prefix)
    /\ Cardinality(CandidatePaths \ Acted) = 6
    /\ Cardinality(CandidatePaths) > 6

\* C5 as written: a candidate is labeled REMOVE only if, for every boundary it
\* is older than, another candidate that is newer than it and older than the
\* boundary has been selected for that boundary.
C5_RemoveOnlyIfNewerOccupies ==
    pc = "done" =>
        \A j \in 1..Len(keep_files) :
            keep_files[j][3] =>
                \A k \in 1..Len(AllDates) :
                    keep_files[j][1] < AllDates[k] =>
                        \E h \in 1..Len(keep_files) :
                            /\ h # j
                            /\ keep_files[h][1] > keep_files[j][1]
                            /\ keep_files[h][1] < AllDates[k]
                            /\ h = FirstBelow(keep_files, AllDates[k])
                            /\ ~keep_files[h][3]

\* C5 amended: in a run with a prefix, a candidate is labeled REMOVE only if,
\* for every boundary it is older than, another candidate that precedes it in
\* the sorted order (newer, or equally new) and is older than the boundary has
\* been selected for that boundary; the first candidate of the sorted order
\* older than some boundary is never removed.
C5_RemoveOnlyIfEarlierOccupies ==
    (Finished /\ IsSome(prefix)) =>
        \A j \in 1..Len(keep_files) :
            keep_files[j][3] =>
                \A k \in 1..Len(AllDates) :
                    keep_files[j][1] < AllDates[k] =>
                        \E h \in 1..(j - 1) :
                            /\ keep_files[h][1] >= keep_files[j][1]
                            /\ keep_files[h][1] < AllDates[k]
                            /\ h = FirstBelow(keep_files, AllDates[k])
                            /\ ~keep_files[h][3]
                            /\ keep_files[h][2] \notin Acted

C5_Witness ==
    /\ Finished /\ IsSome(prefix) /\ test
    /\ \E j \in 2..Len(keep_files) :
         /\ keep_files[j][3]
         /\ keep_files[j][1] = keep_files[j - 1][1]
         /\ ~keep_files[j - 1][3]
         /\ keep_files[j][1] < now - 7

\* REMOVE as the run in the other mode computes it from the same candidates:
\* the sweep redone with the test flag flipped.
RemoveSetOfOtherMode ==
    IF IsSome(prefix)
    THEN CleanPaths(SweepOver(Unmarked(keep_files), keep_dates, ~test))
    ELSE CleanPaths(Unmarked(keep_files))

\* C6: for the same candidates, boundaries and prefix, the paths a dry run
\* prints as "remove file" are the paths a real run hands to remove_file: the
\* partition a run acts on is the one the run with the opposite test flag
\* computes, and only the side effect differs.
C6_DryRunMatchesRealRun ==
    Finished =>
        /\ RemoveSet = RemoveSetOfOtherMode
        /\ IF test THEN Reported = RemoveSetOfOtherMode /\ Called = {}
                   ELSE Called = RemoveSetOfOtherMode /\ Reported = {}
        /\ test => disk = { Path(directory[i].name) : i \in 1..Len(directory) }

C6_Witness ==
    /\ Finished /\ test /\ IsSome(prefix)
    /\ Cardinality(Reported) >= 2
    /\ Cardinality(KeepSet) >= 2
    /\ Reported = RemoveSetOfOtherMode

\* Paths of the REMOVE items among the first n items, in list order.
RECURSIVE CleanPrefix(_, _)
CleanPrefix(files, n) ==
    IF n = 0 THEN <<>>
    ELSE CleanPrefix(files, n - 1)
           \o (IF files[n][3] THEN << files[n][2] >> ELSE <<>>)

\* C7: in a real run a failed delete does not abort the run: whichever deletes
\* fail, the removal loop has called remove_file exactly once on every REMOVE
\* file it has passed, every file whose delete succeeded is gone and every
\* other file is still there, the loop goes on to the end of the list and the
\* run returns.
C7_DeleteFailureDoesNotAbort ==
    (~test /\ pc \in {"remove", "done"} /\ keep_dates # <<>>) =>
        /\ remove_calls = CleanPrefix(keep_files, idx - 1)
        /\ Failed \subseteq Called
        /\ disk = { Path(directory[i].name) : i \in 1..Len(directory) } \ (Called \ Failed)
        /\ pc = "done" => /\ idx = Len(keep_files) + 1
                          /\ Called = RemoveSet
                          /\ Len(remove_calls) = Cardinality(RemoveSet)
        /\ pc = "remove" => ENABLED Next

C7_Witness ==
    /\ Finished /\ ~test
    /\ Len(remove_calls) >= 3
    /\ remove_calls[1] \in Failed
    /\ remove_calls[2] \notin disk
    /\ remove_calls[3] \in Failed

\* Every path a line of an output stream names.
Mentioned(stream) == { stream[k][2] : k \in 1..Len(stream) }

\* C8: an entry whose metadata or modification time cannot be read is never
\* a candidate: it is never selected, never handed to remove_file, never
\* reported, stays on disk, and no error line names it.
C8_UnreadableNeverCandidate ==
    \A i \in 1..Len(directory) :
        ~directory[i].readable =>
            /\ Path(directory[i].name) \notin CandidatePaths
            /\ Path(directory[i].name) \notin Called
            /\ Path(directory[i].name) \notin Mentioned(stdout)
            /\ Path(directory[i].name) \notin Mentioned(stderr)
            /\ Path(directory[i].name) \in disk

C8_Witness ==
    /\ Finished /\ ~test /\ prefix = Some(<< "b" >>)
    /\ \E i \in 1..Len(directory) :
         /\ ~directory[i].readable
         /\ StartsWith(directory[i].name, << "b" >>)
         /\ directory[i].mtime < now - 1
         /\ \E h \in Eligible :
              /\ directory[h].mtime < directory[i].mtime
              /\ Path(directory[h].name) \in KeepSet

C10_NotOlderThanNowIsRemoved ==
    \A j \in 1..Len(keep_files) :
        keep_files[j][1] >= now =>
            /\ keep_files[j][3]
            /\ (Finished /\ ~test /\ IsSome(prefix)) =>
                 Cardinality({ k \in 1..Len(remove_calls) :
                                 remove_calls[k] = keep_files[j][2] }) = 1

C10_Witness ==
    /\ Finished /\ ~test /\ IsSome(prefix)
    /\ \E j \in 1..Len(keep_files) : keep_files[j][1] = now /\ keep_files[j][2] \in Called
    /\ \E j \in 1..Len(keep_files) : keep_files[j][1] > now /\ keep_files[j][2] \in Called


====
